---- MODULE Spec2Model ----
(***************************************************************************)
(* Run-mode state machine of eureka (src/src/lib.rs): the dispatcher       *)
(* run(), the setup flow (repository path, editor discovery/selection),    *)
(* the capture flow (idea prompt -> editor -> commit and push), the view   *)
(* flow (pager) and the two clear operations.                              *)
(*                                                                         *)
(* One invocation of a public method is a walk of pc from a rest position  *)
(* ("idle", "done", "aborted") through the method's blocking steps back to *)
(* "done" (returned) or "aborted" (panicked).  Everything the invocation   *)
(* does to its collaborators (printer, reader, config store, executable    *)
(* locator, child processes, git) is appended to log as <<op, a, b>>.      *)
(* A Result/Option is a sequence of length 0 (Err/None) or 1 (Ok/Some).    *)
(***************************************************************************)
EXTENDS Integers, Sequences, FiniteSets, TLC

VARIABLES
    store,              \* config store: key -> Option<String>
    dirExists,          \* the config directory exists
    installed,          \* executables the host resolves right now
    op,                 \* public method being (or last) invoked
    prev,               \* how the invocation before this one ended
    pc,                 \* position inside the invocation
    startState,         \* RunState at the start of the invocation of run()
    log,                \* collaborator calls of this invocation, in order
    input_repo_path,    \* setup_repo_path: local input_repo_path
    available_editors,  \* setup_editor_path: local available_editors
    editors_and_path,   \* setup_editor_path: local editors_and_path
    select_index,       \* setup_editor_path: local select_index (0-based)
    chosen_editor_path, \* setup_editor_path: local chosen_editor_path
    idea_summary,       \* input_idea: local idea_summary
    editor_path,        \* input_idea: local editor_path
    repo_path,          \* input_idea / open_idea_file: local repo_path
    readme_path         \* input_idea / open_pager_less: local readme_path

vars == <<store, dirExists, installed, op, prev, pc, startState, log,
          input_repo_path, available_editors, editors_and_path, select_index,
          chosen_editor_path, idea_summary, editor_path, repo_path, readme_path>>

setupLocals == <<input_repo_path, available_editors, editors_and_path,
                 select_index, chosen_editor_path>>
captureLocals == <<idea_summary, editor_path, repo_path, readme_path>>
host == <<dirExists, installed>>

-----------------------------------------------------------------------------
(* Bounds of the model *)

\* Empty lines the user may enter at the repository-path prompt in one setup.
MaxEmpty == 2

-----------------------------------------------------------------------------
(* Values *)

None == <<>>
Some(x) == <<x>>

Repo == "Repo"
Editor == "Editor"
ConfigFile == {Repo, Editor}

default_editors == <<"vim", "nano", "micro">>
OtherLabel == "Other (provide name, e.g. 'emacs')"
SelectDefault == 0

\* Executable names the host may or may not resolve.
HostNames == {"vim", "nano", "micro", "emacs", "less"}
\* Lines the user may type at each prompt.
RepoLines == {"", "/ideas", "/notes"}
IdeaLines == {"", "Build a thing"}
EditorLines == {"emacs", "nano"}
ExitCodes == {"0", "1"}

Rest == {"idle", "done", "aborted"}

-----------------------------------------------------------------------------
(* Collaborators *)

\* FileHandler::config_read: Ok(value) when the setting is present.
config_read(s, key) == s[key]
is_err(r) == r = None
is_ok(r) == r # None
unwrap(r) == r[1]

\* FileHandler::config_write on success.
config_write(s, key, value) == [s EXCEPT ![key] = Some(value)]

\* FileHandler::file_rm on success.
file_rm(s, key) == [s EXCEPT ![key] = None]

\* utils::get_if_available: which(name).
get_if_available(inst, name) ==
    IF name \in inst THEN Some("/usr/bin/" \o name) ELSE None

Event(o, a, b) == <<o, a, b>>
OptStr(r) == IF r = None THEN "" ELSE r[1]

-----------------------------------------------------------------------------
(* Pure parts of the code *)

\* Variant: the first-time test with "or" in place of "and".
is_first_time_run_or(s) ==
    is_err(config_read(s, Repo)) \/ is_err(config_read(s, Editor))

is_first_time_run(s) ==
    is_err(config_read(s, Repo)) /\ is_err(config_read(s, Editor))

\* Variant: the missing-config test looks at the repository path only.
is_config_missing_repo_only(s) == is_err(config_read(s, Repo))

\* Variant: the missing-config test with "and" in place of "or".
is_config_missing_and(s) ==
    is_err(config_read(s, Repo)) /\ is_err(config_read(s, Editor))

is_config_missing(s) ==
    is_err(config_read(s, Repo)) \/ is_err(config_read(s, Editor))

\* format!("{}/README.md", repo_path)
README(repo) == repo \o "/README.md"

\* Variant: the "Other" entry is put in front of the found editors.
RECURSIVE Probe_other_first(_, _, _)
Probe_other_first(i, inst, acc) ==
    IF i > Len(default_editors)
    THEN [acc EXCEPT !.menu = <<OtherLabel>> \o acc.menu]
    ELSE LET editor == default_editors[i]
             found == get_if_available(inst, editor)
             calls == Append(acc.calls, Event("which", editor, OptStr(found)))
         IN  IF found # None
             THEN Probe_other_first(i + 1, inst,
                        [menu |-> Append(acc.menu, editor),
                         map |-> (editor :> unwrap(found)) @@ acc.map,
                         calls |-> calls])
             ELSE Probe_other_first(i + 1, inst, [acc EXCEPT !.calls = calls])

\* The probe loop of setup_editor_path over default_editors[i..], followed by
\* the push of the "Other" entry.  acc carries the two locals and the locator
\* calls made.
RECURSIVE Probe(_, _, _)
Probe(i, inst, acc) ==
    IF i > Len(default_editors)
    THEN [acc EXCEPT !.menu = Append(acc.menu, OtherLabel)]
    ELSE LET editor == default_editors[i]
             found == get_if_available(inst, editor)
             calls == Append(acc.calls, Event("which", editor, OptStr(found)))
         IN  IF found # None
             THEN Probe(i + 1, inst,
                        [menu |-> Append(acc.menu, editor),
                         map |-> (editor :> unwrap(found)) @@ acc.map,
                         calls |-> calls])
             ELSE Probe(i + 1, inst, [acc EXCEPT !.calls = calls])

EmptyMap == [e \in {} |-> ""]
ProbeEditorsResult(inst) ==
    Probe(1, inst, [menu |-> <<>>, map |-> EmptyMap, calls |-> <<>>])

last_index(menu) == Len(menu) - 1

\* RunState of the data model, from the presence of the two settings.
RunState(s) ==
    IF s[Repo] = None
    THEN IF s[Editor] = None THEN "BothMissing" ELSE "RepoMissing"
    ELSE IF s[Editor] = None THEN "EditorMissing" ELSE "BothPresent"

-----------------------------------------------------------------------------
(* Log helpers *)

Idx(o) == {i \in 1..Len(log) : log[i][1] = o}
IdxA(o, a) == {i \in 1..Len(log) : log[i][1] = o /\ log[i][2] = a}
Count(o) == Cardinality(Idx(o))
Has(o) == Idx(o) # {}

RepoHeader == "Absolute path to your idea repo"
IdeaHeader == ">> Idea summary"
CompleteMsg == "First time setup complete. Happy ideation!"

Abort(events) ==
    /\ pc' = "aborted"
    /\ log' = log \o events

-----------------------------------------------------------------------------
Init ==
    /\ store = [k \in ConfigFile |-> None]
    /\ dirExists \in BOOLEAN
    /\ installed \in SUBSET HostNames
    /\ op = "none"
    /\ prev = "none"
    /\ pc = "idle"
    /\ startState = "BothMissing"
    /\ log = <<>>
    /\ input_repo_path = ""
    /\ available_editors = <<>>
    /\ editors_and_path = EmptyMap
    /\ select_index = 0
    /\ chosen_editor_path = ""
    /\ idea_summary = ""
    /\ editor_path = ""
    /\ repo_path = ""
    /\ readme_path = ""

\* How the invocation that has just ended went, as far as the next one can
\* depend on it: a setup that printed its completion message, a first-time
\* setup that stored the repository path and then panicked, a clear that
\* removed its setting, or anything else.
LastInvocation ==
    IF op = "run" /\ pc = "done" /\ IdxA("print", CompleteMsg) # {}
    THEN "setup_complete"
    ELSE IF /\ op = "run" /\ pc = "aborted" /\ startState = "BothMissing"
            /\ \E i \in IdxA("config_write", Repo) : log[i + 1][1] # "panic"
    THEN "setup_partial"
    ELSE IF op = "clear_repo" /\ pc = "done" /\ IdxA("file_rm", Repo) # {}
    THEN "cleared_repo"
    ELSE IF op = "clear_editor" /\ pc = "done" /\ IdxA("file_rm", Editor) # {}
    THEN "cleared_editor"
    ELSE "other"

\* A new invocation starts from a rest position, with fresh locals.
Begin(name) ==
    /\ pc \in Rest
    /\ op' = name
    /\ prev' = LastInvocation

FreshSetup ==
    /\ input_repo_path' = ""
    /\ available_editors' = <<>>
    /\ editors_and_path' = EmptyMap
    /\ select_index' = 0
    /\ chosen_editor_path' = ""

FreshCapture ==
    /\ idea_summary' = ""
    /\ editor_path' = ""
    /\ repo_path' = ""
    /\ readme_path' = ""

-----------------------------------------------------------------------------
(* run() *)

\* Variant: the classification of the previous invocation of run() is kept
\* instead of being read from the store again.
Run_cached ==
    /\ Begin("run")
    /\ FreshSetup
    /\ FreshCapture
    /\ startState' = IF op = "run" THEN startState ELSE RunState(store)
    /\ log' = <<>>
    /\ pc' = IF startState' = "BothPresent" THEN "input_idea"
             ELSE IF startState' = "BothMissing" THEN "fts_dir"
             ELSE "repo_check"
    /\ UNCHANGED <<store, host>>

\* lib.rs 40-42, 63-64: the dispatch.
Run ==
    /\ Begin("run")
    /\ FreshSetup
    /\ FreshCapture
    /\ startState' = RunState(store)
    /\ log' = <<>>
    /\ pc' = IF is_config_missing(store)
             THEN IF is_first_time_run(store) THEN "fts_dir" ELSE "repo_check"
             ELSE "input_idea"
    /\ UNCHANGED <<store, host>>

\* lib.rs 44-46: create the config directory if it is missing.
EnsureConfigDir ==
    /\ pc = "fts_dir"
    /\ IF dirExists
       THEN /\ log' = Append(log, Event("dir_check", "exists", ""))
            /\ pc' = "fts_banner"
            /\ UNCHANGED dirExists
       ELSE \/ /\ dirExists' = TRUE
               /\ log' = log \o <<Event("dir_check", "missing", ""),
                                  Event("dir_create", "ok", "")>>
               /\ pc' = "fts_banner"
            \/ /\ Abort(<<Event("dir_check", "missing", ""),
                          Event("dir_create", "err", ""),
                          Event("panic", "config_dir_create", "")>>)
               /\ UNCHANGED dirExists
    /\ UNCHANGED <<store, installed, op, prev, startState, setupLocals, captureLocals>>

\* lib.rs 48
PrintBanner ==
    /\ pc = "fts_banner"
    /\ log' = Append(log, Event("banner", "", ""))
    /\ pc' = "repo_check"
    /\ UNCHANGED <<store, host, op, prev, startState, setupLocals, captureLocals>>

\* Variant: the repository path is never asked for.
CheckRepo_skip ==
    /\ pc = "repo_check"
    /\ pc' = "editor_check"
    /\ input_repo_path' = ""
    /\ UNCHANGED <<store, host, op, prev, startState, log, available_editors,
                   editors_and_path, select_index, chosen_editor_path, captureLocals>>

\* lib.rs 52, 92: is the repository path missing?
CheckRepo ==
    /\ pc = "repo_check"
    /\ pc' = IF is_err(config_read(store, Repo)) THEN "repo_prompt" ELSE "editor_check"
    /\ input_repo_path' = ""
    /\ UNCHANGED <<store, host, op, prev, startState, log, available_editors,
                   editors_and_path, select_index, chosen_editor_path, captureLocals>>

\* Variant: "if" in place of "while": one prompt, whatever is read is written.
RepoPrompt_once ==
    /\ pc = "repo_prompt"
    /\ \E line \in RepoLines :
         /\ input_repo_path' = line
         /\ log' = log \o <<Event("prompt", RepoHeader, ""), Event("read", line, "")>>
         /\ pc' = "repo_write"
    /\ UNCHANGED <<store, host, op, prev, startState, available_editors,
                   editors_and_path, select_index, chosen_editor_path, captureLocals>>

\* Variant: the loop gives up at the second empty line.
RepoPrompt_give_up ==
    /\ pc = "repo_prompt"
    /\ input_repo_path = ""
    /\ \E line \in RepoLines :
         /\ line = "" => Cardinality(IdxA("read", "")) < MaxEmpty
         /\ input_repo_path' = line
         /\ log' = log \o <<Event("prompt", RepoHeader, ""), Event("read", line, "")>>
         /\ pc' = IF line # "" THEN "repo_write"
                  ELSE IF Cardinality(IdxA("read", "")) >= 1 THEN "aborted"
                  ELSE "repo_prompt"
    /\ UNCHANGED <<store, host, op, prev, startState, available_editors,
                   editors_and_path, select_index, chosen_editor_path, captureLocals>>

\* lib.rs 94-99: one iteration of the prompt loop of setup_repo_path.
RepoPrompt ==
    /\ pc = "repo_prompt"
    /\ input_repo_path = ""
    /\ \/ \E line \in RepoLines :
            /\ line = "" => Cardinality(IdxA("read", "")) < MaxEmpty
            /\ input_repo_path' = line
            /\ log' = log \o <<Event("prompt", RepoHeader, ""), Event("read", line, "")>>
            /\ pc' = IF line = "" THEN "repo_prompt" ELSE "repo_write"
       \/ /\ Abort(<<Event("prompt", RepoHeader, ""), Event("panic", "flush", "")>>)
          /\ UNCHANGED input_repo_path
    /\ UNCHANGED <<store, host, op, prev, startState, available_editors,
                   editors_and_path, select_index, chosen_editor_path, captureLocals>>

\* Variant: the result of setup_repo_path is dropped, setup goes on after a
\* failed write.
RepoWrite_ignore_error ==
    /\ pc = "repo_write"
    /\ \/ store' = config_write(store, Repo, input_repo_path)
       \/ UNCHANGED store
    /\ log' = Append(log, Event("config_write", Repo, input_repo_path))
    /\ pc' = "editor_check"
    /\ UNCHANGED <<host, op, prev, startState, setupLocals, captureLocals>>

\* lib.rs 101, 53: write the accepted path; a failed write panics in run().
RepoWrite ==
    /\ pc = "repo_write"
    /\ \/ /\ store' = config_write(store, Repo, input_repo_path)
          /\ log' = Append(log, Event("config_write", Repo, input_repo_path))
          /\ pc' = "editor_check"
       \/ /\ Abort(<<Event("config_write", Repo, input_repo_path),
                     Event("panic", "setup_repo_path", "")>>)
          /\ UNCHANGED store
    /\ UNCHANGED <<host, op, prev, startState, setupLocals, captureLocals>>

\* Variant: the editor path is asked for whether it is missing or not.
CheckEditor_always ==
    /\ pc = "editor_check"
    /\ pc' = "editor_probe"
    /\ UNCHANGED <<store, host, op, prev, startState, log, setupLocals, captureLocals>>

\* Variant: the editor path is never asked for.
CheckEditor_skip ==
    /\ pc = "editor_check"
    /\ pc' = "complete"
    /\ UNCHANGED <<store, host, op, prev, startState, log, setupLocals, captureLocals>>

\* lib.rs 57: is the editor path missing?
CheckEditor ==
    /\ pc = "editor_check"
    /\ pc' = IF is_err(config_read(store, Editor)) THEN "editor_probe" ELSE "complete"
    /\ UNCHANGED <<store, host, op, prev, startState, log, setupLocals, captureLocals>>

\* lib.rs 105-124: header, probe of the default editors, menu with its default
\* entry.
ProbeEditors ==
    /\ pc = "editor_probe"
    /\ LET r == ProbeEditorsResult(installed)
       IN  /\ available_editors' = r.menu
           /\ editors_and_path' = r.map
           /\ log' = (Append(log, Event("editor_header", "", "")) \o r.calls)
                        \o <<Event("menu", r.menu[SelectDefault + 1], "")>>
    /\ pc' = "select"
    /\ UNCHANGED <<store, host, op, prev, startState, input_repo_path, select_index,
                   chosen_editor_path, captureLocals>>

\* Variant: the path of the first found editor is taken, whichever is selected.
SelectEditor_first ==
    /\ pc = "select"
    /\ \E i \in 0..(Len(available_editors) - 1) :
         /\ select_index' = i
         /\ log' = Append(log, Event("select", available_editors[i + 1], ""))
         /\ IF i = last_index(available_editors)
            THEN /\ pc' = "other_prompt"
                 /\ UNCHANGED chosen_editor_path
            ELSE /\ pc' = "editor_write"
                 /\ chosen_editor_path' = editors_and_path[available_editors[1]]
    /\ UNCHANGED <<store, host, op, prev, startState, input_repo_path, available_editors,
                   editors_and_path, captureLocals>>

\* lib.rs 122-129, 140-141: the user picks an entry of the menu.
SelectEditor ==
    /\ pc = "select"
    /\ \/ \E i \in 0..(Len(available_editors) - 1) :
            /\ select_index' = i
            /\ log' = Append(log, Event("select", available_editors[i + 1], ""))
            /\ IF i = last_index(available_editors)
               THEN /\ pc' = "other_prompt"
                    /\ UNCHANGED chosen_editor_path
               ELSE /\ pc' = "editor_write"
                    /\ chosen_editor_path' = editors_and_path[available_editors[i + 1]]
       \/ /\ Abort(<<Event("panic", "select", "")>>)
          /\ UNCHANGED <<select_index, chosen_editor_path>>
    /\ UNCHANGED <<store, host, op, prev, startState, input_repo_path, available_editors,
                   editors_and_path, captureLocals>>

\* Variant: an unresolved name is written as typed instead of panicking.
OtherPrompt_write_name ==
    /\ pc = "other_prompt"
    /\ \E chosen_editor \in EditorLines :
         LET found == get_if_available(installed, chosen_editor)
         IN  /\ log' = log \o <<Event("prompt", "", ""), Event("read", chosen_editor, ""),
                                 Event("which", chosen_editor, OptStr(found))>>
             /\ chosen_editor_path' = IF found = None THEN chosen_editor ELSE unwrap(found)
             /\ pc' = "editor_write"
    /\ UNCHANGED <<store, host, op, prev, startState, input_repo_path, available_editors,
                   editors_and_path, select_index, captureLocals>>

\* lib.rs 130-136: free-text editor name, resolved once.
OtherPrompt ==
    /\ pc = "other_prompt"
    /\ \/ \E chosen_editor \in EditorLines :
            LET found == get_if_available(installed, chosen_editor)
                io == <<Event("prompt", "", ""), Event("read", chosen_editor, ""),
                        Event("which", chosen_editor, OptStr(found))>>
            IN  IF found = None
                THEN /\ Abort(io \o <<Event("panic", "Could not find executable for",
                                            chosen_editor)>>)
                     /\ UNCHANGED chosen_editor_path
                ELSE /\ log' = log \o io
                     /\ chosen_editor_path' = unwrap(found)
                     /\ pc' = "editor_write"
       \/ /\ Abort(<<Event("prompt", "", ""), Event("panic", "flush", "")>>)
          /\ UNCHANGED chosen_editor_path
    /\ UNCHANGED <<store, host, op, prev, startState, input_repo_path, available_editors,
                   editors_and_path, select_index, captureLocals>>

\* lib.rs 137, 142, 58: write the editor path; a failed write panics in run().
EditorWrite ==
    /\ pc = "editor_write"
    /\ \/ /\ store' = config_write(store, Editor, chosen_editor_path)
          /\ log' = Append(log, Event("config_write", Editor, chosen_editor_path))
          /\ pc' = "complete"
       \/ /\ Abort(<<Event("config_write", Editor, chosen_editor_path),
                     Event("panic", "setup_editor_path", "")>>)
          /\ UNCHANGED store
    /\ UNCHANGED <<host, op, prev, startState, setupLocals, captureLocals>>

\* Variant: the else of run() is lost, setup falls through into input_idea.
Complete_fallthrough ==
    /\ pc = "complete"
    /\ log' = Append(log, Event("print", CompleteMsg, ""))
    /\ pc' = "input_idea"
    /\ UNCHANGED <<store, host, op, prev, startState, setupLocals, captureLocals>>

\* lib.rs 61-62
Complete ==
    /\ pc = "complete"
    /\ log' = Append(log, Event("print", CompleteMsg, ""))
    /\ pc' = "done"
    /\ UNCHANGED <<store, host, op, prev, startState, setupLocals, captureLocals>>

-----------------------------------------------------------------------------
(* input_idea() *)

\* Variant: a failed spawn is swallowed.
open_editor_always_ok(status) == Some("()")

\* Variant: only exit status 0 counts as success.
open_editor_exit_gated(status) == IF status = Some("0") THEN Some("()") ELSE None

\* lib.rs 168-169: open_editor is Ok for every status the child exits with,
\* and Err when the child could not be spawned (status = None).
open_editor(status) == IF status # None THEN Some("()") ELSE None

\* lib.rs 168: Command::new(bin_path).arg(file_path)
EditorCommand(bin_path, file_path) == Event("spawn", bin_path, file_path)

\* Variant: the message leaves the file out.
open_editor_eprintln_no_file(bin_path, file_path) == Event("eprintln", "", bin_path)

\* lib.rs 171-174: the message open_editor writes to the error stream.
open_editor_eprintln(bin_path, file_path) == Event("eprintln", file_path, bin_path)

\* lib.rs 163: the panic message of input_idea.
input_idea_panic(bin_path) == Event("panic", "Could not open editor at path", bin_path)

\* lib.rs 162: git_commit_and_push(&repo_path, idea_summary)
CommitCall(repo, summary) == Event("commit", repo, summary)

\* lib.rs 154-159: prompt, read, the two config reads and the notes-file path.
IdeaPrompt ==
    /\ pc = "input_idea"
    /\ \E line \in IdeaLines :
         LET io == <<Event("prompt", IdeaHeader, ""), Event("read", line, "")>>
             e == config_read(store, Editor)
             r == config_read(store, Repo)
         IN  /\ idea_summary' = line
             /\ IF is_err(e)
                THEN /\ Abort(io \o <<Event("panic", "config_read", Editor)>>)
                     /\ UNCHANGED <<editor_path, repo_path, readme_path>>
                ELSE IF is_err(r)
                THEN /\ Abort(io \o <<Event("panic", "config_read", Repo)>>)
                     /\ editor_path' = unwrap(e)
                     /\ UNCHANGED <<repo_path, readme_path>>
                ELSE /\ log' = log \o io
                     /\ editor_path' = unwrap(e)
                     /\ repo_path' = unwrap(r)
                     /\ readme_path' = README(unwrap(r))
                     /\ pc' = "open_editor"
    /\ UNCHANGED <<store, host, op, prev, startState, setupLocals>>

\* lib.rs 161-164, 167-178: launch the editor and wait for it.
OpenEditor ==
    /\ pc = "open_editor"
    /\ \E status \in {None} \cup {Some(c) : c \in ExitCodes} :
         LET cmd == EditorCommand(editor_path, readme_path)
             io == IF status = None
                   THEN <<cmd, Event("spawn_fail", "", ""),
                          open_editor_eprintln(editor_path, readme_path)>>
                   ELSE <<cmd, Event("exit", unwrap(status), "")>>
         IN  IF is_ok(open_editor(status))
             THEN /\ log' = log \o io
                  /\ pc' = "commit"
             ELSE Abort(Append(io, input_idea_panic(editor_path)))
    /\ UNCHANGED <<store, host, op, prev, startState, setupLocals, captureLocals>>

\* lib.rs 162: commit and push; a failure panics.
Commit ==
    /\ pc = "commit"
    /\ \/ /\ log' = Append(log, CommitCall(repo_path, idea_summary))
          /\ pc' = "done"
       \/ Abort(<<CommitCall(repo_path, idea_summary),
                  Event("panic", "git_commit_and_push", "")>>)
    /\ UNCHANGED <<store, host, op, prev, startState, setupLocals, captureLocals>>

-----------------------------------------------------------------------------
(* open_idea_file() *)

\* Variant: a missing repository path is taken as the empty path.
OpenIdeaFile_default ==
    /\ Begin("open_idea_file")
    /\ FreshSetup
    /\ idea_summary' = ""
    /\ editor_path' = ""
    /\ readme_path' = ""
    /\ repo_path' = OptStr(config_read(store, Repo))
    /\ log' = <<>>
    /\ pc' = "pager"
    /\ UNCHANGED <<store, host, startState>>

\* lib.rs 84-88
OpenIdeaFile ==
    /\ Begin("open_idea_file")
    /\ FreshSetup
    /\ idea_summary' = ""
    /\ editor_path' = ""
    /\ readme_path' = ""
    /\ LET r == config_read(store, Repo)
       IN  IF is_ok(r)
           THEN /\ repo_path' = unwrap(r)
                /\ log' = <<>>
                /\ pc' = "pager"
           ELSE /\ repo_path' = ""
                /\ log' = <<Event("panic", "No path to repository found", "")>>
                /\ pc' = "aborted"
    /\ UNCHANGED <<store, host, startState>>

\* lib.rs 181-195, 86: locate less, launch it on the notes file and wait.
OpenPager ==
    /\ pc = "pager"
    /\ readme_path' = README(repo_path)
    /\ LET less_path == get_if_available(installed, "less")
           which == Event("which", "less", OptStr(less_path))
       IN  IF less_path = None
           THEN Abort(<<which, Event("panic", "Cannot locate executable", "less")>>)
           ELSE LET cmd == Event("spawn", unwrap(less_path), README(repo_path))
                IN  \/ \E c \in ExitCodes :
                          /\ log' = log \o <<which, cmd, Event("exit", c, "")>>
                          /\ pc' = "done"
                    \/ Abort(<<which, cmd, Event("spawn_fail", "", ""),
                               Event("eprintln", README(repo_path), ""),
                               Event("panic", "open_pager_less", "")>>)
    /\ UNCHANGED <<store, host, op, prev, startState, setupLocals, idea_summary,
                   editor_path, repo_path>>

-----------------------------------------------------------------------------
(* clear_repo(), clear_editor() *)

\* Variant: a clear removes both settings.
Clear_all(name, key) ==
    /\ Begin(name)
    /\ FreshSetup
    /\ FreshCapture
    /\ IF is_ok(config_read(store, key))
       THEN \/ /\ store' = [k \in ConfigFile |-> None]
               /\ log' = <<Event("file_rm", key, "ok")>>
               /\ pc' = "done"
            \/ /\ log' = <<Event("file_rm", key, "err"),
                            Event("panic", "Could not remove config file", key)>>
               /\ pc' = "aborted"
               /\ UNCHANGED store
       ELSE /\ log' = <<>>
            /\ pc' = "done"
            /\ UNCHANGED store
    /\ UNCHANGED <<host, startState>>

\* Variant: the presence check is lost, file_rm is called on an absent setting
\* too (and then may fail).
Clear_unchecked(name, key) ==
    /\ Begin(name)
    /\ FreshSetup
    /\ FreshCapture
    /\ \/ /\ store' = file_rm(store, key)
          /\ log' = <<Event("file_rm", key, "ok")>>
          /\ pc' = "done"
       \/ /\ log' = <<Event("file_rm", key, "err"),
                       Event("panic", "Could not remove config file", key)>>
          /\ pc' = "aborted"
          /\ UNCHANGED store
    /\ UNCHANGED <<host, startState>>

\* lib.rs 68-74, 76-82
Clear(name, key) ==
    /\ Begin(name)
    /\ FreshSetup
    /\ FreshCapture
    /\ IF is_ok(config_read(store, key))
       THEN \/ /\ store' = file_rm(store, key)
               /\ log' = <<Event("file_rm", key, "ok")>>
               /\ pc' = "done"
            \/ /\ log' = <<Event("file_rm", key, "err"),
                            Event("panic", "Could not remove config file", key)>>
               /\ pc' = "aborted"
               /\ UNCHANGED store
       ELSE /\ log' = <<>>
            /\ pc' = "done"
            /\ UNCHANGED store
    /\ UNCHANGED <<host, startState>>

ClearRepo == Clear("clear_repo", Repo)

ClearEditor == Clear("clear_editor", Editor)

-----------------------------------------------------------------------------
(* The host *)

\* An executable is installed on or removed from the host.
HostChange ==
    /\ \E name \in HostNames :
         installed' = IF name \in installed
                      THEN installed \ {name}
                      ELSE installed \cup {name}
    /\ UNCHANGED <<store, dirExists, op, prev, pc, startState, log, setupLocals, captureLocals>>

-----------------------------------------------------------------------------
Next ==
    \/ Run
    \/ EnsureConfigDir
    \/ PrintBanner
    \/ CheckRepo
    \/ RepoPrompt
    \/ RepoWrite
    \/ CheckEditor
    \/ ProbeEditors
    \/ SelectEditor
    \/ OtherPrompt
    \/ EditorWrite
    \/ Complete
    \/ IdeaPrompt
    \/ OpenEditor
    \/ Commit
    \/ OpenIdeaFile
    \/ OpenPager
    \/ ClearRepo
    \/ ClearEditor
    \/ HostChange

\* The reader returns: a prompt of setup_repo_path that waits for a line gets
\* one.
LiveSpec == Init /\ [][Next]_vars /\ WF_vars(RepoPrompt)

Spec == Init /\ [][Next]_vars

-----------------------------------------------------------------------------
(* Vocabulary of the properties *)

InRun == op = "run"
Ended == pc \in {"done", "aborted"}

SetupPcs == {"fts_dir", "fts_banner", "repo_check", "repo_prompt", "repo_write",
             "editor_check", "editor_probe", "select", "other_prompt",
             "editor_write", "complete"}
CapturePcs == {"input_idea", "open_editor", "commit"}

\* Calls only Setup Flow makes / only Capture Flow makes.
SetupEvent(e) ==
    \/ e[1] \in {"dir_check", "dir_create", "banner", "editor_header", "which",
                 "menu", "select", "config_write", "print"}
    \/ e[1] = "prompt" /\ e[2] \in {RepoHeader, ""}
CaptureEvent(e) ==
    \/ e[1] \in {"spawn", "exit", "spawn_fail", "eprintln", "commit"}
    \/ e[1] = "prompt" /\ e[2] = IdeaHeader

Completed == IdxA("print", CompleteMsg) # {}
Captured == \E i \in 1..Len(log) : CaptureEvent(log[i])

RepoPrompts == IdxA("prompt", RepoHeader)
RepoWrites == IdxA("config_write", Repo)
EditorWrites == IdxA("config_write", Editor)
\* A config_write that failed is followed by the panic it causes.
WriteOk(i) == ~(i < Len(log) /\ log[i + 1][1] = "panic")
SettingAcquisition ==
    Idx("prompt") \cup Idx("read") \cup Idx("config_write") \cup Idx("editor_header")
        \cup Idx("which") \cup Idx("menu") \cup Idx("select")

-----------------------------------------------------------------------------
(* C1 *)

\* C1: run() takes the capture route (input_idea) exactly when both settings
\* were present at its start, and the setup route in the three other cases:
\* the position and every collaborator call of the invocation belong to the
\* route the truth table gives for the starting RunState.
C1_RouteMatchesTruthTable ==
    InRun =>
        /\ pc \in CapturePcs => startState = "BothPresent"
        /\ pc \in SetupPcs =>
               startState \in {"BothMissing", "RepoMissing", "EditorMissing"}
        /\ \A i \in 1..Len(log) :
               /\ CaptureEvent(log[i]) => startState = "BothPresent"
               /\ SetupEvent(log[i]) => startState # "BothPresent"
        /\ Ended => (Captured <=> startState = "BothPresent")

C1_Witness ==
    /\ InRun
    /\ startState = "RepoMissing"
    /\ pc = "repo_write"

-----------------------------------------------------------------------------
(* C2 *)

\* C2 as stated: every invocation of run() prints the completion message or
\* performs idea capture, never both, and none ends having done neither.
C2_CompleteXorCapture ==
    InRun =>
        /\ ~(Completed /\ Captured)
        /\ Ended => (Completed \/ Captured)

\* C2 amended: no invocation of run() both prints the completion message and
\* performs idea capture; an invocation that returns has done exactly one of
\* the two; an invocation that ends having done neither is one that started
\* with a setting missing and aborted fatally inside Setup Flow.
C2_CompleteXorCaptureUnlessAborted ==
    InRun =>
        /\ ~(Completed /\ Captured)
        /\ pc = "done" => (Completed \/ Captured)
        /\ (Ended /\ ~Completed /\ ~Captured) =>
               /\ pc = "aborted"
               /\ startState # "BothPresent"
               /\ Has("panic")

C2_Witness ==
    /\ InRun
    /\ pc = "done"
    /\ Completed
    /\ ~Captured
    /\ startState = "BothMissing"

-----------------------------------------------------------------------------
(* C3 *)

\* C3 as stated: started in BothMissing, the invocation prints the welcome
\* banner exactly once and checks the config directory exactly once, both
\* before any setting is prompted for or written; started in any other state
\* it never prints the banner and never creates the directory.
C3_BannerExactlyOnce ==
    InRun =>
        /\ (startState = "BothMissing" /\ Ended) =>
               /\ Count("banner") = 1
               /\ Count("dir_check") = 1
        /\ \A i \in Idx("banner") \cup Idx("dir_check") :
               \A j \in SettingAcquisition : i < j
        /\ startState # "BothMissing" =>
               ~Has("banner") /\ ~Has("dir_check") /\ ~Has("dir_create")

\* C3 amended: started in BothMissing, the invocation checks the config
\* directory exactly once and then, unless creating the directory fails (the
\* run aborts fatally there, with no banner), prints the welcome banner exactly
\* once, both before any setting is prompted for or written; started in any
\* other state it never prints the banner and never creates the directory.
C3_BannerOnceUnlessDirCreateFails ==
    InRun =>
        /\ startState = "BothMissing" =>
               /\ Count("dir_check") = (IF pc = "fts_dir" THEN 0 ELSE 1)
               /\ Count("dir_create") <= 1
               /\ Count("banner") =
                      (IF pc \in {"fts_dir", "fts_banner"}
                          \/ IdxA("dir_create", "err") # {}
                       THEN 0 ELSE 1)
               /\ IdxA("dir_create", "err") # {} =>
                      pc = "aborted" /\ SettingAcquisition = {}
               /\ \A i \in Idx("dir_check") : \A j \in Idx("banner") : i < j
        /\ \A i \in Idx("banner") \cup Idx("dir_check") :
               \A j \in SettingAcquisition : i < j
        /\ startState # "BothMissing" =>
               ~Has("banner") /\ ~Has("dir_check") /\ ~Has("dir_create")

C3_Witness ==
    /\ InRun
    /\ startState = "BothMissing"
    /\ Count("banner") = 1
    /\ IdxA("dir_create", "ok") # {}
    /\ RepoWrites # {}

-----------------------------------------------------------------------------
(* C4 *)

\* Calls of repository-path acquisition / of editor-path acquisition.
RepoAcquisition == RepoPrompts \cup RepoWrites
EditorAcquisition ==
    Idx("editor_header") \cup Idx("which") \cup Idx("menu") \cup Idx("select")
        \cup IdxA("prompt", "") \cup EditorWrites

\* C4: in one invocation of run() every repository-path prompt and the
\* repository-path write come before the editor menu and the editor-path
\* write, and the editor path is only ever written (and the menu only ever
\* shown) while the repository path is present in the store.
C4_RepoBeforeEditor ==
    InRun =>
        /\ \A i \in RepoAcquisition : \A j \in EditorAcquisition : i < j
        /\ \A j \in EditorWrites :
               \/ startState = "EditorMissing"
               \/ \E i \in RepoWrites : i < j /\ WriteOk(i)
        /\ pc \in {"editor_probe", "select", "other_prompt", "editor_write"} =>
               is_ok(config_read(store, Repo))
        /\ EditorWrites # {} => is_ok(config_read(store, Repo))

C4_Witness ==
    /\ InRun
    /\ startState = "BothMissing"
    /\ \E i \in RepoWrites : \E j \in EditorWrites : i < j /\ WriteOk(j)
    /\ pc = "done"

-----------------------------------------------------------------------------
(* C5 *)

IdeaPrompts == IdxA("prompt", IdeaHeader)
\* The read that answers prompt p is the next call.
ReadAfter(p) == log[p + 1][2]

\* C5: in Capture Flow the idea summary is prompted for and read before the
\* editor process is launched, commit-and-push is invoked only after the
\* editor process was launched and has terminated, and never in an invocation
\* in which the editor was not launched.
C5_PromptEditorCommitOrder ==
    InRun =>
        /\ \A s \in Idx("spawn") :
               \E p \in IdeaPrompts : p + 1 < s /\ log[p + 1][1] = "read"
        /\ \A c \in Idx("commit") :
               \E s \in Idx("spawn") : \E x \in Idx("exit") : s < x /\ x < c
        /\ pc = "commit" => Has("exit")
        /\ Has("spawn_fail") => ~Has("commit") /\ pc # "commit"

C5_Witness ==
    /\ InRun
    /\ pc = "done"
    /\ Has("commit")

-----------------------------------------------------------------------------
(* C6 *)

\* C6: with both settings present, Capture Flow with summary s launches the
\* stored editor once, with the single argument <RepositoryPath>/README.md,
\* and once the editor process launched and terminated, whatever its exit
\* code and whatever s (the empty string included), the invocation ends
\* having invoked commit-and-push exactly once, with the stored
\* RepositoryPath and with message s.
C6_CaptureCallsEditorAndCommit ==
    (InRun /\ startState = "BothPresent") =>
        /\ Count("spawn") <= 1
        /\ Count("commit") <= 1
        /\ \A i \in Idx("spawn") :
               log[i] = <<"spawn", unwrap(config_read(store, Editor)),
                          unwrap(config_read(store, Repo)) \o "/README.md">>
        /\ \A c \in Idx("commit") :
               \E p \in IdeaPrompts :
                  log[c] = <<"commit", unwrap(config_read(store, Repo)), ReadAfter(p)>>
        /\ (Ended /\ Has("exit")) => Count("commit") = 1
        /\ (Has("exit") /\ ~Ended) => pc = "commit"

C6_Witness ==
    /\ InRun
    /\ pc = "done"
    /\ IdxA("exit", "1") # {}
    /\ \E c \in Idx("commit") : log[c][3] = ""

-----------------------------------------------------------------------------
(* C7 *)

\* C7: when the editor process fails to launch in Capture Flow, the run is
\* aborted, the error stream got a message naming both the notes-file path
\* and the editor path that were used for the launch, the panic names the
\* editor path, and commit-and-push is not invoked.
C7_SpawnFailureAborts ==
    (InRun /\ Has("spawn_fail")) =>
        /\ pc = "aborted"
        /\ ~Has("commit")
        /\ \E s \in Idx("spawn") : \E m \in Idx("eprintln") : \E q \in Idx("panic") :
               /\ s < m /\ m < q
               /\ log[s][2] = unwrap(config_read(store, Editor))
               /\ log[s][3] = README(unwrap(config_read(store, Repo)))
               /\ log[m][2] = log[s][3]
               /\ log[m][3] = log[s][2]
               /\ log[q][3] = log[s][2]

C7_Witness ==
    /\ InRun
    /\ Has("spawn_fail")
    /\ Has("eprintln")

-----------------------------------------------------------------------------
(* C8 *)

\* Repository-path prompts answered with an empty / a non-empty line.
EmptyAnswers == {p \in RepoPrompts : log[p + 1] = <<"read", "", "">>}
NonEmptyAnswers ==
    {p \in RepoPrompts : log[p + 1][1] = "read" /\ log[p + 1][2] # ""}

\* C8: repository-path acquisition that reads k empty lines and then a
\* non-empty line v prompts exactly k + 1 times, calls no config write while
\* the lines read are empty, and then calls the write of RepositoryPath
\* exactly once, with exactly v (which is the stored value when the write
\* succeeds).
C8_RepoPromptLoop ==
    InRun =>
        /\ Cardinality(RepoWrites) <= 1
        /\ Cardinality(NonEmptyAnswers) <= 1
        /\ NonEmptyAnswers = {} => RepoWrites = {}
        /\ \A p \in NonEmptyAnswers :
               /\ \A q \in RepoPrompts : q <= p
               /\ Cardinality(RepoPrompts) = Cardinality(EmptyAnswers) + 1
               /\ pc # "repo_write" =>
                      /\ RepoWrites = {p + 2}
                      /\ log[p + 2] = <<"config_write", Repo, ReadAfter(p)>>
                      /\ WriteOk(p + 2) =>
                             config_read(store, Repo) = Some(ReadAfter(p))
        /\ \A w \in RepoWrites : w - 2 \in NonEmptyAnswers

C8_Witness ==
    /\ InRun
    /\ Cardinality(EmptyAnswers) = 2
    /\ Cardinality(RepoPrompts) = 3
    /\ \E w \in RepoWrites : WriteOk(w) /\ log[w][3] = "/ideas"
    /\ config_read(store, Repo) = Some("/ideas")

-----------------------------------------------------------------------------
(* C9 *)

\* The locator calls of the probe are those made before the menu is shown.
MenuShown == Has("menu")
MenuAt == CHOOSE m \in Idx("menu") : TRUE
ProbeCalls == {i \in Idx("which") : i < MenuAt}
\* What the locator answered for name during the probe ("" when unresolved).
ProbedPath(name) ==
    LET i == CHOOSE i \in ProbeCalls : log[i][2] = name IN log[i][3]
Resolved(name) ==
    \E i \in ProbeCalls : log[i][2] = name /\ log[i][3] # ""
ResolvedInProbeOrder == SelectSeq(default_editors, Resolved)

\* C9: the selection menu is exactly the default editors the locator resolved
\* during the probe, in probe order (vim, nano, micro), followed by the
\* "Other" entry as last entry, so it has (number resolved + 1) entries; the
\* default entry is the first one, which is "Other" when nothing resolved.
C9_MenuIsResolvedThenOther ==
    (InRun /\ MenuShown) =>
        /\ {log[i][2] : i \in ProbeCalls} = {default_editors[k] : k \in 1..Len(default_editors)}
        /\ Cardinality(ProbeCalls) = Len(default_editors)
        /\ available_editors = ResolvedInProbeOrder \o <<OtherLabel>>
        /\ Len(available_editors) = Len(ResolvedInProbeOrder) + 1
        /\ available_editors[Len(available_editors)] = OtherLabel
        /\ log[MenuAt][2] = available_editors[1]
        /\ Len(ResolvedInProbeOrder) = 0 =>
               /\ available_editors = <<OtherLabel>>
               /\ log[MenuAt][2] = OtherLabel

C9_Witness ==
    /\ InRun
    /\ pc = "select"
    /\ available_editors = <<"vim", "micro", OtherLabel>>

-----------------------------------------------------------------------------
(* C10 *)

\* C10: when an entry of the menu other than the last is selected, no
\* free-text prompt is issued and the value written to EditorPath is exactly
\* the path the locator returned, during this setup's probe, for the editor
\* name shown at the selected index (which is never the "Other" entry).
C10_FoundEditorWritesProbedPath ==
    (InRun /\ Has("select") /\ select_index # last_index(available_editors)) =>
        LET name == available_editors[select_index + 1] IN
        /\ name # OtherLabel
        /\ \E k \in 1..Len(default_editors) : default_editors[k] = name
        /\ Resolved(name)
        /\ IdxA("prompt", "") = {}
        /\ \A i \in Idx("read") : i - 1 \in RepoPrompts
        /\ \A i \in Idx("which") : i \in ProbeCalls
        /\ chosen_editor_path = ProbedPath(name)
        /\ \A w \in EditorWrites :
               /\ log[w] = <<"config_write", Editor, ProbedPath(name)>>
               /\ WriteOk(w) => config_read(store, Editor) = Some(ProbedPath(name))
        /\ Cardinality(EditorWrites) = (IF pc = "editor_write" THEN 0 ELSE 1)
        /\ pc \in {"editor_write", "complete", "done", "aborted"}

C10_Witness ==
    /\ InRun
    /\ pc = "done"
    /\ available_editors = <<"vim", "nano", OtherLabel>>
    /\ select_index = 1
    /\ config_read(store, Editor) = Some("/usr/bin/nano")
    /\ "nano" \notin installed

-----------------------------------------------------------------------------
(* C11 *)

OtherPrompts == IdxA("prompt", "")
OtherSelected == IdxA("select", OtherLabel) # {}

\* C11: when the "Other" entry is selected, one free-text editor name is read
\* and resolved once; a resolved name has its path written to EditorPath; an
\* unresolved name aborts the run with a panic naming the requested editor,
\* with no second prompt, no write to EditorPath (which stays absent) and no
\* completion message.
C11_OtherResolvesOrAborts ==
    (InRun /\ OtherSelected) =>
        /\ select_index = last_index(available_editors)
        /\ Cardinality(OtherPrompts) <= 1
        /\ pc = "other_prompt" <=> OtherPrompts = {}
        /\ \A p \in OtherPrompts :
               \/ /\ log[p + 1] = <<"panic", "flush", "">>
                  /\ pc = "aborted"
                  /\ EditorWrites = {}
               \/ /\ log[p + 1][1] = "read"
                  /\ log[p + 2] = <<"which", ReadAfter(p), log[p + 2][3]>>
                  /\ Cardinality(Idx("which")) = Len(default_editors) + 1
                  /\ IF log[p + 2][3] # ""
                     THEN /\ chosen_editor_path = log[p + 2][3]
                          /\ pc # "editor_write" =>
                                 /\ EditorWrites = {p + 3}
                                 /\ log[p + 3] = <<"config_write", Editor, log[p + 2][3]>>
                                 /\ WriteOk(p + 3) =>
                                        config_read(store, Editor) = Some(log[p + 2][3])
                     ELSE /\ pc = "aborted"
                          /\ Len(log) = p + 3
                          /\ log[p + 3] = <<"panic", "Could not find executable for",
                                            ReadAfter(p)>>
                          /\ EditorWrites = {}
                          /\ is_err(config_read(store, Editor))
                          /\ ~Completed

C11_Witness ==
    /\ InRun
    /\ OtherSelected
    /\ pc = "aborted"
    /\ \E q \in Idx("panic") : log[q] = <<"panic", "Could not find executable for", "emacs">>
    /\ Len(available_editors) > 1

-----------------------------------------------------------------------------
(* C12 *)

\* A step that is one whole call of clear_repo() / clear_editor().
ClearStep(name) == pc \in Rest /\ op' = name /\ installed' = installed

\* What one call of the clear operation for key does.
ClearEffect(key) ==
    IF is_err(config_read(store, key))
    THEN /\ store' = store
         /\ log' = <<>>
         /\ pc' = "done"
    ELSE /\ log'[1][1] = "file_rm" /\ log'[1][2] = key
         /\ Cardinality({i \in 1..Len(log') : log'[i][1] = "file_rm"}) = 1
         /\ pc' = "done" => is_err(config_read(store', key))
         /\ pc' = "aborted" => log'[1][3] = "err" /\ store' = store

\* The invocation of run() that follows a clear that removed its setting.
AfterClear ==
    (InRun /\ prev \in {"cleared_repo", "cleared_editor"}) =>
        /\ prev = "cleared_repo" => startState \in {"BothMissing", "RepoMissing"}
        /\ prev = "cleared_editor" => startState \in {"BothMissing", "EditorMissing"}
        /\ pc \notin CapturePcs
        /\ ~Captured

\* C12: clear_repo() / clear_editor() on an absent setting removes nothing,
\* raises no error and returns; on a present setting it calls the removal
\* once and, when it returns, the setting reads as absent (a failed removal
\* panics and leaves the store as it was), so that an invocation of run()
\* that follows a clear that removed its setting enters Setup Flow.
C12_ClearRemovesIfPresent ==
    /\ []AfterClear
    /\ [][/\ ClearStep("clear_repo") => ClearEffect(Repo)
          /\ ClearStep("clear_editor") => ClearEffect(Editor)]_vars

C12_Witness ==
    /\ InRun
    /\ prev = "cleared_repo"
    /\ startState = "RepoMissing"
    /\ pc = "repo_prompt"

-----------------------------------------------------------------------------
(* C13 *)

InView == op = "open_idea_file"
\* A step that is the entry of open_idea_file().
ViewStep == pc \in Rest /\ op' = "open_idea_file" /\ installed' = installed

\* C13: open_idea_file() with RepositoryPath absent panics at once, without
\* locating or launching any process; and no execution of View Flow, with the
\* repository path present or not, with the pager resolved or not, invokes
\* commit-and-push.
C13_ViewWithoutRepoAborts ==
    /\ [](InView =>
            /\ ~Has("commit")
            /\ pc \in {"pager", "done", "aborted"}
            /\ is_err(config_read(store, Repo)) =>
                   /\ pc = "aborted"
                   /\ log = <<Event("panic", "No path to repository found", "")>>
            /\ (pc = "pager" \/ Has("which") \/ Has("spawn")) =>
                   is_ok(config_read(store, Repo))
            /\ \A i \in Idx("spawn") :
                   log[i][3] = README(unwrap(config_read(store, Repo))))
    /\ [][ViewStep =>
            IF is_err(config_read(store, Repo))
            THEN /\ pc' = "aborted"
                 /\ log' = <<Event("panic", "No path to repository found", "")>>
            ELSE /\ pc' = "pager"
                 /\ repo_path' = unwrap(config_read(store, Repo))]_vars

C13_Witness ==
    /\ InView
    /\ pc = "aborted"
    /\ is_err(config_read(store, Repo))
    /\ is_ok(config_read(store, Editor))
    /\ "less" \in installed

-----------------------------------------------------------------------------
(* C14 *)

\* C14: with one instance at a time, whenever run() is in Capture Flow both
\* EditorPath and RepositoryPath are present when input_idea reads them (and
\* the values it read are the stored ones), so the panic of input_idea on a
\* failed config read never happens in an invocation of run().
C14_CaptureReadsPresentSettings ==
    InRun =>
        /\ pc \in CapturePcs =>
               /\ is_ok(config_read(store, Editor))
               /\ is_ok(config_read(store, Repo))
        /\ IdxA("panic", "config_read") = {}
        /\ pc \in {"open_editor", "commit"} =>
               /\ editor_path = unwrap(config_read(store, Editor))
               /\ repo_path = unwrap(config_read(store, Repo))
        /\ (\E p \in IdeaPrompts : log[p + 1][1] = "read") =>
               pc \in {"open_editor", "commit", "done", "aborted"} /\ editor_path # ""
                  /\ repo_path # ""

C14_Witness ==
    /\ InRun
    /\ prev = "setup_complete"
    /\ pc = "open_editor"
    /\ editor_path = "/usr/bin/emacs"
    /\ repo_path = "/notes"

-----------------------------------------------------------------------------
(* C15 *)

\* The invocation of run() that follows one which started in BothMissing,
\* stored the repository path and then panicked during editor acquisition.
Resumed == InRun /\ prev = "setup_partial"

\* C15: the invocation of run() that follows a first-time setup which stored
\* RepositoryPath and then aborted during editor acquisition is classified
\* EditorMissing from the store: it prints no welcome banner, does not touch
\* the config directory, does not prompt for or rewrite RepositoryPath, and
\* does nothing but editor acquisition, followed (when that succeeds) by the
\* completion message as its last act.
C15_ResumesWithEditorOnly ==
    Resumed =>
        /\ startState = "EditorMissing"
        /\ is_ok(config_read(store, Repo))
        /\ pc \notin {"fts_dir", "fts_banner", "repo_prompt", "repo_write"}
        /\ pc \notin CapturePcs
        /\ ~Has("banner") /\ ~Has("dir_check") /\ ~Has("dir_create")
        /\ RepoPrompts = {} /\ RepoWrites = {}
        /\ ~Captured
        /\ \A i \in 1..Len(log) :
               \/ i \in EditorAcquisition
               \/ log[i][1] = "read" /\ i - 1 \in OtherPrompts
               \/ log[i][1] = "panic" /\ i = Len(log)
               \/ log[i] = <<"print", CompleteMsg, "">> /\ i = Len(log)
        /\ pc = "done" =>
               /\ Completed
               /\ EditorWrites = {Len(log) - 1}
               /\ is_ok(config_read(store, Editor))

C15_Witness ==
    /\ Resumed
    /\ pc = "done"
    /\ Completed

-----------------------------------------------------------------------------
(* C16 *)

\* A step taken inside an invocation of run().
RunStep == InRun /\ pc \notin Rest

\* C16: Setup Flow acquires only the settings that were absent at the start:
\* run() started in RepoMissing never shows the editor menu and never changes
\* EditorPath, run() started in EditorMissing never prompts for the
\* repository path and never changes RepositoryPath, and no invocation of
\* run() calls more than two setting writes (at most one per setting).
C16_AcquiresOnlyAbsentSettings ==
    /\ [](InRun =>
            /\ startState = "RepoMissing" =>
                   /\ EditorAcquisition = {}
                   /\ pc \notin {"editor_probe", "select", "other_prompt",
                                  "editor_write"}
                   /\ is_ok(config_read(store, Editor))
            /\ startState = "EditorMissing" =>
                   /\ RepoAcquisition = {}
                   /\ pc \notin {"repo_prompt", "repo_write"}
                   /\ is_ok(config_read(store, Repo))
            /\ Count("config_write") <= 2
            /\ Cardinality(RepoWrites) <= 1
            /\ Cardinality(EditorWrites) <= 1
            /\ startState = "BothPresent" => Count("config_write") = 0)
    /\ [][RunStep =>
            /\ startState = "RepoMissing" => store'[Editor] = store[Editor]
            /\ startState = "EditorMissing" => store'[Repo] = store[Repo]]_vars

C16_Witness ==
    /\ InRun
    /\ startState = "RepoMissing"
    /\ pc = "done"
    /\ Completed
    /\ Count("config_write") = 1

-----------------------------------------------------------------------------
(* C17 *)

\* The write of RepositoryPath was called and the setting is still absent.
RepoWriteFailed == RepoWrites # {} /\ is_err(config_read(store, Repo))

\* C17: when the config write of RepositoryPath fails during setup the run
\* panics at once: the write is not called again, nothing is prompted for
\* after it, the editor menu is not shown, EditorPath is not written and the
\* completion message is not printed.
C17_RepoWriteFailureIsFatal ==
    InRun =>
        /\ \A w \in RepoWrites : ~WriteOk(w) => is_err(config_read(store, Repo))
        /\ RepoWriteFailed =>
               /\ pc = "aborted"
               /\ \E w \in RepoWrites :
                      /\ RepoWrites = {w}
                      /\ Len(log) = w + 1
                      /\ log[w + 1] = <<"panic", "setup_repo_path", "">>
                      /\ \A p \in Idx("prompt") : p < w
               /\ EditorAcquisition = {}
               /\ EditorWrites = {}
               /\ ~Completed
               /\ ~Captured

C17_Witness ==
    /\ InRun
    /\ RepoWriteFailed
    /\ startState = "BothMissing"
    /\ Cardinality(EmptyAnswers) = 1

-----------------------------------------------------------------------------
(* C18 *)

\* A step of the prompt loop that read a line.
RepoRead(line) ==
    /\ InRun /\ pc = "repo_prompt"
    /\ Len(log') = Len(log) + 2
    /\ log'[Len(log')] = <<"read", line, "">>

-----------------------------------------------------------------------------
(* C19 *)

\* C19: whenever run() has printed the completion message, RepositoryPath and
\* EditorPath are both present with non-empty values, and every value this
\* invocation wrote is a non-empty string; so the invocation of run() that
\* follows it on the unchanged store is classified BothPresent and is in
\* Capture Flow, with no setup prompt, menu or write.
C19_CompletionMeansConfigured ==
    InRun =>
        /\ Completed =>
               /\ is_ok(config_read(store, Repo))
               /\ is_ok(config_read(store, Editor))
               /\ unwrap(config_read(store, Repo)) # ""
               /\ unwrap(config_read(store, Editor)) # ""
               /\ Count("config_write") >= 1
               /\ \A w \in Idx("config_write") :
                      /\ log[w][3] # ""
                      /\ WriteOk(w)
                      /\ config_read(store, log[w][2]) = Some(log[w][3])
        /\ prev = "setup_complete" =>
               /\ startState = "BothPresent"
               /\ pc \notin SetupPcs
               /\ pc \in CapturePcs \cup {"done", "aborted"}
               /\ \A i \in 1..Len(log) : ~SetupEvent(log[i])
               /\ ~Completed

C19_Witness ==
    /\ InRun
    /\ prev = "setup_complete"
    /\ pc = "done"
    /\ Has("commit")

-----------------------------------------------------------------------------
(* C20 *)

\* A step of Capture Flow (the dispatch into it included) or of View Flow.
CaptureOrViewStep ==
    \/ InRun /\ pc \in CapturePcs
    \/ pc \in Rest /\ op' = "run" /\ pc' \in CapturePcs
    \/ InView /\ pc = "pager"
    \/ ViewStep

\* C20: no step of Capture Flow or View Flow, ending well or in a panic,
\* changes the config store, and neither flow calls a setting write or
\* removal; clear_repo() never changes EditorPath and clear_editor() never
\* changes RepositoryPath.
C20_FlowsLeaveSettingsAlone ==
    /\ [][/\ CaptureOrViewStep => store' = store
          /\ ClearStep("clear_repo") => store'[Editor] = store[Editor]
          /\ ClearStep("clear_editor") => store'[Repo] = store[Repo]]_vars
    /\ [](((InRun /\ startState = "BothPresent") \/ InView) =>
            ~Has("config_write") /\ ~Has("file_rm"))
    /\ [](op = "clear_repo" => IdxA("file_rm", Editor) = {})
    /\ [](op = "clear_editor" => IdxA("file_rm", Repo) = {})

C20_Witness ==
    /\ op = "clear_editor"
    /\ pc = "done"
    /\ IdxA("file_rm", Editor) # {}
    /\ is_err(config_read(store, Editor))
    /\ config_read(store, Repo) = Some("/ideas")

====
